---- MODULE Spec2Model ----
(***************************************************************************)
(* Model of phaser-raycaster's Raycaster.Map (map-core) and Raycaster.Ray  *)
(* (ray-core).                                                             *)
(*                                                                         *)
(* Map part: the Map constructor and the `dynamic` getter/setter, acting   *)
(* on the parent raycaster's dynamicMappedObjects list and on its          *)
(* _stats.mappedObjects counters.                                          *)
(* Ray part: the Ray constructor's defaults and a cast with no obstacles.  *)
(***************************************************************************)
EXTENDS Integers, Sequences, FiniteSets

\* ------------------------------------------------------------------ bounds
NMaps == 2          \* Map instances (each wraps its own game object)
MaxList == 3        \* cap on the length of dynamicMappedObjects
MaxRange == 3       \* ray ranges a caller sets: 1..MaxRange
MaxCoord == 1       \* ray origins: -MaxCoord..MaxCoord on each axis

MapIds == 1..NMaps

\* Values a caller can assign to `dynamic` (JavaScript values, by name).
Values == {"true", "false", "1", "0", "2", "undefined"}

\* Object types handed to config(); "Text" stands for any unsupported type.
Types == {"Polygon", "Text"}
SupportedTypes == {"Polygon"}

VARIABLES
    map,        \* map[m]: the fields of Map instance m
    raycaster,  \* the one parent raycaster: list and counters
    error,      \* the exception the last operation ended with ("none" if it returned)
    last,       \* the last operation on a Map, with the state it started from
    ray,        \* the fields of one Ray
    rayLog,     \* what has happened to the ray since it was constructed
    result      \* what the last cast() returned

mapVars == <<map, raycaster, error, last>>
rayVars == <<ray, rayLog, result>>
vars == <<map, raycaster, error, last, ray, rayLog, result>>

\* ------------------------------------------------------- JavaScript values
\* ToBoolean(v), as `if(dynamic)` evaluates it.
Truthy(v) == v \in {"true", "1", "2"}

\* b == v for a boolean b (abstract equality): the boolean becomes a number
\* (true -> 1, false -> 0) and is compared with ToNumber(v); undefined equals
\* only null and undefined.
LooseEquals(b, v) ==
    CASE v = "true"  -> b
      [] v = "1"     -> b
      [] v = "false" -> ~b
      [] v = "0"     -> ~b
      [] OTHER       -> FALSE

\* ----------------------------------------------------------------- helpers
\* Array.prototype.indexOf: the first index holding x, 0 when there is none
\* (sequences are 1-based; JavaScript's -1 is 0 here).
indexOf(s, x) ==
    IF \E i \in 1..Len(s) : s[i] = x
    THEN CHOOSE i \in 1..Len(s) : s[i] = x /\ \A j \in 1..(i - 1) : s[j] # x
    ELSE 0

\* Array.prototype.splice(index, 1): the sequence without its index-th entry.
splice(s, i) == [k \in 1..(Len(s) - 1) |-> IF k < i THEN s[k] ELSE s[k + 1]]

\* A Map that has not been constructed.
NoMap(m) ==
    [made |-> FALSE, _raycaster |-> FALSE, type |-> "Polygon", notSupported |-> FALSE,
     _dynamic |-> FALSE, object |-> m, calls |-> <<>>]

\* ------------------------------------------------------- the dynamic setter
\* updateStats with the static counter left as it was.
updateStats_staleStatic(rc) ==
    [rc EXCEPT !.stats.dynamic = Len(rc.dynamicMappedObjects)]

\* The two assignments that follow every push and every splice.
updateStats(rc) ==
    LET dyn == Len(rc.dynamicMappedObjects) IN
    [rc EXCEPT !.stats.dynamic = dyn, !.stats.static = rc.stats.total - dyn]

\* addDynamic without the check for a parent raycaster: with none, the push
\* dereferences `false` and throws.
addDynamic_noParentCheck(w, m) ==
    LET w1 == [w EXCEPT !.map[m]._dynamic = TRUE] IN
    IF w1.map[m]._raycaster
    THEN [w1 EXCEPT !.rc = updateStats(
             [w1.rc EXCEPT !.dynamicMappedObjects = Append(@, w1.map[m].object)])]
    ELSE [w1 EXCEPT !.err = "TypeError"]

\* The branch taken for a truthy value: the flag, then the push and the counters
\* when there is a parent raycaster.
addDynamic(w, m) ==
    LET w1 == [w EXCEPT !.map[m]._dynamic = TRUE] IN
    IF w1.map[m]._raycaster
    THEN [w1 EXCEPT !.rc = updateStats(
             [w1.rc EXCEPT !.dynamicMappedObjects = Append(@, w1.map[m].object)])]
    ELSE w1

\* removeDynamic that drops the list's last entry instead of the object's own.
removeDynamic_pop(w, m) ==
    LET w1 == [w EXCEPT !.map[m]._dynamic = FALSE] IN
    IF w1.map[m]._raycaster
    THEN LET index == indexOf(w1.rc.dynamicMappedObjects, w1.map[m].object)
             list == IF index >= 1
                     THEN SubSeq(w1.rc.dynamicMappedObjects, 1,
                                 Len(w1.rc.dynamicMappedObjects) - 1)
                     ELSE w1.rc.dynamicMappedObjects
         IN [w1 EXCEPT !.rc = updateStats([w1.rc EXCEPT !.dynamicMappedObjects = list])]
    ELSE w1

\* The branch taken for a falsy value: the flag, then indexOf, the splice when
\* the object is found, and the counters, when there is a parent raycaster.
removeDynamic(w, m) ==
    LET w1 == [w EXCEPT !.map[m]._dynamic = FALSE] IN
    IF w1.map[m]._raycaster
    THEN LET index == indexOf(w1.rc.dynamicMappedObjects, w1.map[m].object)
             list == IF index >= 1 THEN splice(w1.rc.dynamicMappedObjects, index)
                     ELSE w1.rc.dynamicMappedObjects
         IN [w1 EXCEPT !.rc = updateStats([w1.rc EXCEPT !.dynamicMappedObjects = list])]
    ELSE w1

\* The setter without its early return.
set_dynamic_noGuard(w, m, dynamic) ==
    IF Truthy(dynamic) THEN addDynamic(w, m) ELSE removeDynamic(w, m)

\* set dynamic(dynamic), on the world w = [map, rc, err].
set_dynamic(w, m, dynamic) ==
    IF LooseEquals(w.map[m]._dynamic, dynamic) THEN w
    ELSE IF Truthy(dynamic) THEN addDynamic(w, m)
    ELSE removeDynamic(w, m)

\* get dynamic()
get_dynamic(w, m) == w.map[m]._dynamic

\* ------------------------------------------------------------ construction
\* config(options): records the object and its type, marks a type it cannot
\* map as notSupported, and otherwise assigns options.dynamic (a boolean)
\* through the setter.
config(w, m, options) ==
    LET w1 == [w EXCEPT !.map[m].type = options.type,
                        !.map[m].calls = Append(@, "config")] IN
    IF options.type \notin SupportedTypes
    THEN [w1 EXCEPT !.map[m].notSupported = TRUE]
    ELSE set_dynamic(w1, m, IF options.dynamic THEN "true" ELSE "false")

\* updateMap(): recomputes the points and segments; here only the call is recorded.
updateMap(w, m) == [w EXCEPT !.map[m].calls = Append(@, "updateMap")]

\* A constructor that throws for a type config() cannot map, making no Map.
Map_throwsUnsupported(w, m, options, hasRaycaster) ==
    LET w0 == [w EXCEPT !.map[m] =
                  [NoMap(m) EXCEPT !.made = TRUE, !._raycaster = hasRaycaster]]
        w1 == config(w0, m, options)
    IN IF ~w1.map[m].notSupported THEN updateMap(w1, m)
       ELSE [w EXCEPT !.err = "UnsupportedShapeError"]

\* A constructor that calls updateMap() whatever config() found.
Map_alwaysUpdates(w, m, options, hasRaycaster) ==
    LET w0 == [w EXCEPT !.map[m] =
                  [NoMap(m) EXCEPT !.made = TRUE, !._raycaster = hasRaycaster]]
        w1 == config(w0, m, options)
    IN updateMap(w1, m)

\* new Map(options, raycaster)
Map(w, m, options, hasRaycaster) ==
    LET w0 == [w EXCEPT !.map[m] =
                  [NoMap(m) EXCEPT !.made = TRUE, !._raycaster = hasRaycaster]]
        w1 == config(w0, m, options)
    IN IF ~w1.map[m].notSupported THEN updateMap(w1, m) ELSE w1

\* The raycaster's registration of a game object: constructs its Map and, when
\* the type is supported, counts it.
register(w, m, options) ==
    LET w1 == Map(w, m, options, TRUE) IN
    IF w1.map[m].notSupported THEN w1
    ELSE LET rc1 == [w1.rc EXCEPT !.stats.total = @ + 1] IN
         [w1 EXCEPT !.rc = [rc1 EXCEPT !.stats.static = rc1.stats.total - rc1.stats.dynamic]]

\* ------------------------------------------------------------------- state
World == [map |-> map, rc |-> raycaster, err |-> error]

Options == [type : Types, dynamic : BOOLEAN]

NoOp == [op |-> "none", m |-> 0, v |-> "none", type |-> "none",
         flags |-> [i \in MapIds |-> FALSE], list |-> <<>>,
         stats |-> [total |-> 0, static |-> 0, dynamic |-> 0]]

\* The record of an operation on Map m started from world w.
Op(w, op, m, v, type) ==
    [op |-> op, m |-> m, v |-> v, type |-> type,
     flags |-> [i \in MapIds |-> w.map[i]._dynamic],
     list |-> w.rc.dynamicMappedObjects, stats |-> w.rc.stats]

InitMaps ==
    /\ map = [m \in MapIds |-> NoMap(m)]
    /\ raycaster = [dynamicMappedObjects |-> <<>>,
                    stats |-> [total |-> 0, static |-> 0, dynamic |-> 0]]
    /\ error = "none"
    /\ last = NoOp

Apply(w) ==
    /\ Len(w.rc.dynamicMappedObjects) <= MaxList
    /\ map' = w.map
    /\ raycaster' = w.rc
    /\ error' = w.err
    /\ UNCHANGED rayVars

\* A Map is made: by the raycaster mapping a game object (viaRaycaster), or
\* by a caller's new Map(options) with no parent raycaster.
NewMap(m, options, viaRaycaster) ==
    /\ ~map[m].made
    /\ Apply(IF viaRaycaster
             THEN register([World EXCEPT !.err = "none"], m, options)
             ELSE Map([World EXCEPT !.err = "none"], m, options, FALSE))
    /\ last' = Op(World, "new", m, "none", options.type)

\* map.dynamic = v
SetDynamic(m, v) ==
    /\ map[m].made
    /\ Apply(set_dynamic([World EXCEPT !.err = "none"], m, v))
    /\ last' = Op(World, "set", m, v, "none")

\* map.dynamic = true; map.dynamic = false; by one caller, on a static Map
Toggle(m) ==
    /\ map[m].made
    /\ ~map[m]._dynamic
    /\ Apply(set_dynamic(set_dynamic([World EXCEPT !.err = "none"], m, "true"), m, "false"))
    /\ last' = Op(World, "toggle", m, "none", "none")

Next ==
    \/ \E m \in MapIds, o \in Options, r \in BOOLEAN : NewMap(m, o, r)
    \/ \E m \in MapIds, v \in Values : SetDynamic(m, v)
    \/ \E m \in MapIds : Toggle(m)

\* --------------------------------------------------------------------- Ray
\* Phaser.Math.MAX_SAFE_INTEGER (2^53 - 1 in Phaser) stands here as a number
\* above every range and coordinate of the model.
MAX_SAFE_INTEGER == 1000000

\* Angles are whole quarter turns (0, pi/2, pi, 3pi/2), whose cosine and sine
\* are integers.
Angles == 0..3
Cos(a) == CASE a = 0 -> 1 [] a = 1 -> 0 [] a = 2 -> -1 [] OTHER -> 0
Sin(a) == CASE a = 0 -> 0 [] a = 1 -> 1 [] a = 2 -> 0 [] OTHER -> -1

Coords == (-MaxCoord)..MaxCoord
Points == Coords \X Coords
Ranges == 1..MaxRange

\* A constructor whose rays report their misses by default.
Ray_reportsMisses ==
    [origin |-> <<0, 0>>, angle |-> 0, cone |-> 0, rayRange |-> MAX_SAFE_INTEGER,
     detectionRange |-> 0, collisionRange |-> MAX_SAFE_INTEGER,
     ignoreNotIntersectedRays |-> FALSE, round |-> FALSE, autoSlice |-> FALSE]

\* new Ray(options) with no option given: the constructor's defaults.
Ray ==
    [origin |-> <<0, 0>>, angle |-> 0, cone |-> 0, rayRange |-> MAX_SAFE_INTEGER,
     detectionRange |-> 0, collisionRange |-> MAX_SAFE_INTEGER,
     ignoreNotIntersectedRays |-> TRUE, round |-> FALSE, autoSlice |-> FALSE]

\* The ray's target: the point at rayRange from the origin along the angle.
getPointB(r) ==
    <<r.origin[1] + r.rayRange * Cos(r.angle), r.origin[2] + r.rayRange * Sin(r.angle)>>

NotCast == [cast |-> FALSE, hit |-> FALSE, point |-> <<0, 0>>]
None == [cast |-> TRUE, hit |-> FALSE, point |-> <<0, 0>>]

\* cast() with no mapped object to test: no candidate is found, so the result
\* is none when ignoreNotIntersectedRays is set and the ray's target otherwise
\* (ranges here are positive; rounding leaves integer coordinates as they are).
cast(r) ==
    IF r.ignoreNotIntersectedRays THEN None
    ELSE [cast |-> TRUE, hit |-> TRUE, point |-> getPointB(r)]

FreshLog == [ignoreAssigned |-> FALSE]

NewRay ==
    /\ UNCHANGED mapVars
    /\ ray' = Ray
    /\ rayLog' = FreshLog
    /\ result' = NotCast

SetOrigin(p) ==
    /\ UNCHANGED mapVars
    /\ ray' = [ray EXCEPT !.origin = p]
    /\ result' = NotCast
    /\ UNCHANGED rayLog

SetAngle(a) ==
    /\ UNCHANGED mapVars
    /\ ray' = [ray EXCEPT !.angle = a]
    /\ result' = NotCast
    /\ UNCHANGED rayLog

SetRayRange(n) ==
    /\ UNCHANGED mapVars
    /\ ray' = [ray EXCEPT !.rayRange = n]
    /\ result' = NotCast
    /\ UNCHANGED rayLog

\* ray.ignoreNotIntersectedRays = b
SetIgnoreNotIntersectedRays(b) ==
    /\ UNCHANGED mapVars
    /\ ray' = [ray EXCEPT !.ignoreNotIntersectedRays = b]
    /\ rayLog' = [rayLog EXCEPT !.ignoreAssigned = TRUE]
    /\ result' = NotCast

Cast ==
    /\ UNCHANGED mapVars
    /\ result' = cast(ray)
    /\ UNCHANGED <<ray, rayLog>>

NextCast ==
    \/ NewRay
    \/ \E p \in Points : SetOrigin(p)
    \/ \E a \in Angles : SetAngle(a)
    \/ \E n \in Ranges : SetRayRange(n)
    \/ \E b \in BOOLEAN : SetIgnoreNotIntersectedRays(b)
    \/ Cast

\* ---------------------------------------------------------- specifications
Init ==
    /\ InitMaps
    /\ ray = Ray
    /\ rayLog = FreshLog
    /\ result = NotCast

\* The Maps and their raycaster.
Spec == Init /\ [][Next]_vars

\* The Ray.
SpecRay == Init /\ [][NextCast]_vars

\* ================================================================== claims
\* The number of entries of s equal to x.
RECURSIVE countOf(_, _)
countOf(s, x) ==
    IF s = <<>> THEN 0
    ELSE (IF Head(s) = x THEN 1 ELSE 0) + countOf(Tail(s), x)

\* s without the entries equal to x, order kept.
RECURSIVE without(_, _)
without(s, x) ==
    IF s = <<>> THEN <<>>
    ELSE IF Head(s) = x THEN without(Tail(s), x)
    ELSE <<Head(s)>> \o without(Tail(s), x)

list == raycaster.dynamicMappedObjects
stats == raycaster.stats
InList(m) == countOf(list, map[m].object) > 0
Flags == [i \in MapIds |-> map[i]._dynamic]

\* The last operation was `map.dynamic = v` on a Map with the parent raycaster.
AssignedWithParent == last.op = "set" /\ map[last.m]._raycaster
\* ... and it changed the flag.
FlagChanged == last.op = "set" /\ map[last.m]._dynamic # last.flags[last.m]

\* v is the boolean the flag b holds, or the number equal to it (1 for true,
\* 0 for false).
SameAsFlag(b, v) == (b /\ v \in {"true", "1"}) \/ (~b /\ v \in {"false", "0"})

\* C1: a mapped object whose Map has the parent raycaster is in
\* dynamicMappedObjects if and only if its Map's dynamic flag is true, in every
\* state reachable by assignments to `dynamic`.
C1_MembershipIff ==
    \A m \in MapIds :
        (map[m].made /\ map[m]._raycaster) => (InList(m) <=> map[m]._dynamic)

\* C2: after an assignment to `dynamic` that changes the flag of a Map with a
\* parent raycaster, the dynamic counter is the length of dynamicMappedObjects
\* and the static counter is total minus dynamic, so static + dynamic = total.
C2_CountersConsistent ==
    (AssignedWithParent /\ FlagChanged) =>
        /\ stats.dynamic = Len(list)
        /\ stats.static = stats.total - stats.dynamic
        /\ stats.static + stats.dynamic = stats.total

\* C2's case: a registered Map of two has just become dynamic.
C2_Witness ==
    /\ AssignedWithParent /\ FlagChanged
    /\ map[last.m]._dynamic
    /\ stats.total = 2 /\ stats.dynamic = 1 /\ stats.static = 1

\* C3: for a static Map with a parent raycaster, setting dynamic to true and
\* then to false restores the static and dynamic counters to what they were
\* before, and the mapped object is absent from dynamicMappedObjects.
C3_ToggleRestores ==
    (last.op = "toggle" /\ map[last.m]._raycaster) =>
        /\ stats.static = last.stats.static
        /\ stats.dynamic = last.stats.dynamic
        /\ ~InList(last.m)

\* C4: assigning `dynamic` a value equal to the current flag changes nothing
\* (no flag, not the list or its order, no counter), and assigning such a value
\* twice, or a boolean twice, leaves what assigning it once leaves.
C4_EqualAssignIsNoOp ==
    /\ (last.op = "set" /\ SameAsFlag(last.flags[last.m], last.v)) =>
           /\ Flags = last.flags
           /\ list = last.list
           /\ stats = last.stats
           /\ error = "none"
    /\ \A m \in MapIds, v \in Values :
           (map[m].made /\ SameAsFlag(map[m]._dynamic, v)) =>
               /\ set_dynamic(World, m, v) = World
               /\ set_dynamic(set_dynamic(World, m, v), m, v) = World
    /\ \A m \in MapIds, v \in {"true", "false"} :
           map[m].made =>
               set_dynamic(set_dynamic(World, m, v), m, v) = set_dynamic(World, m, v)

\* C4's case: true has just been assigned to a dynamic Map listed with another.
C4_Witness ==
    /\ AssignedWithParent
    /\ last.v = "true" /\ last.flags[last.m]
    /\ Len(list) = 2 /\ InList(last.m)

\* C5: after any sequence of assignments to `dynamic`, a mapped object appears
\* at most once in dynamicMappedObjects.
C5_NoDoubleRegistration ==
    \A m \in MapIds : countOf(list, map[m].object) <= 1

C7_UpdateMapOnce ==
    \A m \in MapIds :
        map[m].made =>
            map[m].calls = IF map[m].notSupported THEN <<"config">>
                           ELSE <<"config", "updateMap">>

\* C7's case: one Map of a supported type and one of an unsupported type exist.
C7_Witness ==
    \E m, n \in MapIds :
        /\ map[m].made /\ ~map[m].notSupported /\ map[m].type \in SupportedTypes
        /\ map[n].made /\ map[n].notSupported /\ map[n].type \notin SupportedTypes

C10_ParentlessOnlyFlag ==
    (last.op = "set" /\ ~map[last.m]._raycaster) =>
        /\ list = last.list
        /\ stats = last.stats
        /\ error = "none"
        /\ \A i \in MapIds \ {last.m} : map[i]._dynamic = last.flags[i]
        /\ last.v = "true" => map[last.m]._dynamic
        /\ last.v = "false" => ~map[last.m]._dynamic

\* C10's case: true has just been assigned to a static Map without a parent,
\* while the raycaster lists another object.
C10_Witness ==
    /\ last.op = "set" /\ ~map[last.m]._raycaster
    /\ last.v = "true" /\ ~last.flags[last.m] /\ map[last.m]._dynamic
    /\ Len(list) = 1
====
